---- MODULE Spec2Model ----
(***************************************************************************)
(* State-machine model of the expense tracker in src/main.py: the three    *)
(* SQLite tables the handlers read and write, and one action per request   *)
(* handler.                                                                *)
(*                                                                         *)
(* Representation.                                                         *)
(*  - A text value (a category, a form field) is a sequence of one-        *)
(*    character strings, so that strip() and lower() are computed.         *)
(*  - An amount is an integer number of thousandths of the currency unit   *)
(*    (REAL columns and Python floats are modelled as exact decimals);     *)
(*    round(x, 2) is Round2.  A percentage is an integer number of         *)
(*    hundredths of a percent.                                             *)
(*  - The DATE columns hold text.  A date text is [y, m, d, time]: the     *)
(*    ISO form "YYYY-MM-DD" (time = FALSE) or the same followed by a       *)
(*    time of day, "YYYY-MM-DD HH:MM:SS" (time = TRUE).  SQLite compares   *)
(*    them as text, strftime() accepts both, the sqlite3 DATE converter    *)
(*    accepts only the first.                                              *)
(*  - A form field or CSV cell is [has, v]: has = FALSE when it is absent. *)
(*  - The columns title, description and split_with are not modelled: no   *)
(*    handler modelled here reads them.                                    *)
(***************************************************************************)
EXTENDS Integers, Sequences, FiniteSets, TLC

VARIABLES
    expenses,         \* table expenses, in rowid order
    incomes,          \* table incomes, in rowid order
    budgets,          \* table budgets, in rowid order
    sqlite_sequence,  \* AUTOINCREMENT: the largest rowid each table has used
    today,            \* date.today(), a Python date [y, m, d]
    resp,             \* what the last request returned (and its locals)
    inflight          \* the add-expense requests being served step by step

vars == <<expenses, incomes, budgets, sqlite_sequence, today, resp, inflight>>

(***************************************************************************)
(* Text                                                                    *)
(***************************************************************************)
UpperCase == <<"A","B","C","D","E","F","G","H","I","J","K","L","M",
               "N","O","P","Q","R","S","T","U","V","W","X","Y","Z">>
LowerCase == <<"a","b","c","d","e","f","g","h","i","j","k","l","m",
               "n","o","p","q","r","s","t","u","v","w","x","y","z">>

\* str.isspace() on one character
IsSpace(c) == c \in {" ", "\t", "\n", "\r"}

\* str.lower() on one character
LowerChar(c) ==
    IF \E i \in 1..26 : UpperCase[i] = c
    THEN LowerCase[CHOOSE i \in 1..26 : UpperCase[i] = c]
    ELSE c

\* str.lower()
Lower(s) == [i \in 1..Len(s) |-> LowerChar(s[i])]

RECURSIVE LStrip(_)
LStrip(s) == IF s # <<>> /\ IsSpace(Head(s)) THEN LStrip(Tail(s)) ELSE s

RECURSIVE RStrip(_)
RStrip(s) ==
    IF s # <<>> /\ IsSpace(s[Len(s)]) THEN RStrip(SubSeq(s, 1, Len(s) - 1)) ELSE s

\* str.strip()
Strip(s) == RStrip(LStrip(s))

TOTAL_BUDGET_KEY == <<"_","_","T","O","T","A","L","_","_">>
TOTAL_BUDGET_LABEL ==
    <<"T","o","t","a","l"," ","(","A","l","l"," ",
      "C","a","t","e","g","o","r","i","e","s",")">>
General == <<"G","e","n","e","r","a","l">>
Uncategorized == <<"U","n","c","a","t","e","g","o","r","i","z","e","d">>
TotalWords == { <<"t","o","t","a","l">>, <<"o","v","e","r","a","l","l">>,
                <<"a","l","l">>, <<"*">> }

\* A form field or CSV cell
Absent == [has |-> FALSE, v |-> <<>>]
Field(v) == [has |-> TRUE, v |-> v]

\* Python truth of a text field: None and "" are false
Truthy(f) == f.has /\ f.v # <<>>

\* `f or default` on a text field
OrElse(f, default) == IF Truthy(f) THEN f.v ELSE default

\* _normalize_category(cat), cat a text or None
_normalize_category(cat) ==
    IF ~Truthy(cat) THEN General
    ELSE LET c == Strip(cat.v)
         IN IF Lower(c) \in TotalWords THEN TOTAL_BUDGET_KEY ELSE c

\* _display_category(cat)
_display_category(cat) ==
    IF cat = TOTAL_BUDGET_KEY THEN TOTAL_BUDGET_LABEL
    ELSE IF cat # <<>> THEN cat ELSE Uncategorized

(***************************************************************************)
(* Dates                                                                   *)
(***************************************************************************)
IsLeap(y) == (y % 4 = 0 /\ y % 100 # 0) \/ y % 400 = 0

DaysInMonth(y, m) ==
    IF m = 2 THEN (IF IsLeap(y) THEN 29 ELSE 28)
    ELSE IF m \in {4, 6, 9, 11} THEN 30 ELSE 31

\* datetime.date(y, m, d)
PyDate(y, m, d) == [y |-> y, m |-> m, d |-> d]

\* d - timedelta(days=1)
PrevDay(d) ==
    IF d.d > 1 THEN PyDate(d.y, d.m, d.d - 1)
    ELSE IF d.m > 1 THEN PyDate(d.y, d.m - 1, DaysInMonth(d.y, d.m - 1))
    ELSE PyDate(d.y - 1, 12, 31)

\* d + timedelta(days=1)
NextDay(d) ==
    IF d.d < DaysInMonth(d.y, d.m) THEN PyDate(d.y, d.m, d.d + 1)
    ELSE IF d.m < 12 THEN PyDate(d.y, d.m + 1, 1)
    ELSE PyDate(d.y + 1, 1, 1)

\* d + timedelta(days=n), n any integer
RECURSIVE PlusDays(_, _)
PlusDays(d, n) ==
    IF n = 0 THEN d
    ELSE IF n > 0 THEN PlusDays(NextDay(d), n - 1)
    ELSE PlusDays(PrevDay(d), n + 1)

\* date.isoformat(), also the sqlite3 adapter of a date parameter
isoformat(d) == [y |-> d.y, m |-> d.m, d |-> d.d, time |-> FALSE]

\* Whether datetime.strptime(text, "%Y-%m-%d") succeeds
StrptimeOk(t) ==
    /\ ~t.time
    /\ t.m \in 1..12
    /\ t.d >= 1 /\ t.d <= DaysInMonth(t.y, t.m)

\* datetime.strptime(text, "%Y-%m-%d").date()
Strptime(t) == PyDate(t.y, t.m, t.d)

\* text[:7], the "YYYY-MM" token, as [y, m]
YearMonth(t) == [y |-> t.y, m |-> t.m]

\* SQLite strftime('%Y-%m', text): both text forms are accepted
strftime_ym(t) == [y |-> t.y, m |-> t.m]

\* SQLite text comparison a <= b of two date texts
TextLE(a, b) ==
    \/ a.y < b.y
    \/ a.y = b.y /\ a.m < b.m
    \/ a.y = b.y /\ a.m = b.m /\ a.d < b.d
    \/ a.y = b.y /\ a.m = b.m /\ a.d = b.d /\ (b.time \/ ~a.time)

\* SQL `x BETWEEN lo AND hi`, lo and hi date parameters
Between(x, lo, hi) == TextLE(isoformat(lo), x) /\ TextLE(x, isoformat(hi))

\* Whether the sqlite3 DATE converter, date(*map(int, val.split("-"))), succeeds
ConvertOk(t) == ~t.time

\* datetime.MAXYEAR: date(y, m, d) raises ValueError for a later year
MAXYEAR == 9999

\* Whether month_bounds(ym) raises: nxt = date(first.year+1, 1, 1) is out of
\* range for December of year MAXYEAR
month_bounds_raises(ym) == ym.m = 12 /\ ym.y + 1 > MAXYEAR

\* month_bounds(ym), when it does not raise
month_bounds(ym) ==
    LET first == Strptime([y |-> ym.y, m |-> ym.m, d |-> 1, time |-> FALSE])
        nxt == IF first.m = 12 THEN PyDate(first.y + 1, 1, 1)
               ELSE PyDate(first.y, first.m + 1, 1)
        last == PrevDay(nxt)
    IN [first |-> first, last |-> last]

(***************************************************************************)
(* Numbers                                                                 *)
(***************************************************************************)
\* round(x, 2): x in thousandths, the result too (a multiple of 10); a tie
\* goes to the even hundredth
Round2(x) ==
    LET a == IF x < 0 THEN -x ELSE x
        q == a \div 10
        r == a % 10
        v == IF r > 5 \/ (r = 5 /\ q % 2 = 1) THEN 10 * (q + 1) ELSE 10 * q
    IN IF x < 0 THEN -v ELSE v

\* round((spent / amt) * 100, 2), amt # 0, in hundredths of a percent
Percent(spent, amt) ==
    LET sgn == IF (spent < 0) # (amt < 0) THEN -1 ELSE 1
        n == (IF spent < 0 THEN -spent ELSE spent) * 10000
        d == IF amt < 0 THEN -amt ELSE amt
        q == n \div d
        r == n % d
        v == IF 2 * r > d \/ (2 * r = d /\ q % 2 = 1) THEN q + 1 ELSE q
    IN sgn * v

\* SUM(amount) over rows, COALESCE(.., 0)
RECURSIVE SumAmount(_)
SumAmount(rows) ==
    IF rows = <<>> THEN 0 ELSE Head(rows).amount + SumAmount(Tail(rows))

(***************************************************************************)
(* Queries.  conn is the database a connection sees:                       *)
(* [expenses, incomes, budgets], each table in rowid order.                *)
(***************************************************************************)
\* get_db(): a connection to the database as it is now
get_db == [expenses |-> expenses, incomes |-> incomes, budgets |-> budgets]

\* A category sum read from a snapshot older than the last commit: it
\* misses the newest row
_spent_in_category_month_stale(conn, uid, category, ym) ==
    SumAmount(SelectSeq(conn.expenses,
        LAMBDA e : e.user_id = uid /\ e.category = category
                   /\ strftime_ym(e.date) = ym
                   /\ \E o \in {conn.expenses[i] : i \in DOMAIN conn.expenses} :
                          o.id > e.id))

\* _spent_in_category_month(conn, uid, category, ym)
_spent_in_category_month(conn, uid, category, ym) ==
    SumAmount(SelectSeq(conn.expenses,
        LAMBDA e : e.user_id = uid /\ e.category = category
                   /\ strftime_ym(e.date) = ym))

\* A month total without the user_id filter
_spent_total_month_all(conn, uid, ym) ==
    LET b == month_bounds(ym)
    IN SumAmount(SelectSeq(conn.expenses,
           LAMBDA e : Between(e.date, b.first, b.last)))

\* _spent_total_month(conn, uid, ym)
_spent_total_month(conn, uid, ym) ==
    LET b == month_bounds(ym)
    IN SumAmount(SelectSeq(conn.expenses,
           LAMBDA e : e.user_id = uid /\ Between(e.date, b.first, b.last)))

\* SELECT amount FROM budgets WHERE user_id=? AND category=? AND month=?
\* with fetchone(): <<>> for None, else <<row>>
SelectBudget(conn, uid, category, ym) ==
    LET found == SelectSeq(conn.budgets,
            LAMBDA b : b.user_id = uid /\ b.category = category /\ b.month = ym)
    IN IF found = <<>> THEN <<>> ELSE <<Head(found)>>

\* Rows of a table WHERE user_id=? AND date BETWEEN ? AND ?
InRange(table, uid, lo, hi) ==
    SelectSeq(table, LAMBDA r : r.user_id = uid /\ Between(r.date, lo, hi))

\* The date texts of S in ascending text order (ORDER BY date)
RECURSIVE SortTexts(_)
SortTexts(S) ==
    IF S = {} THEN <<>>
    ELSE LET lo == CHOOSE x \in S : \A y \in S : TextLE(x, y)
         IN <<lo>> \o SortTexts(S \ {lo})

\* SELECT date, COALESCE(SUM(amount),0) .. GROUP BY date ORDER BY date
GroupByDate(rows) ==
    LET ds == SortTexts({rows[i].date : i \in DOMAIN rows})
    IN [i \in DOMAIN ds |->
           [date |-> ds[i],
            total |-> SumAmount(SelectSeq(rows, LAMBDA r : r.date = ds[i]))]]

\* The orders in which a query without ORDER BY may return the rows of
\* `rows`: SQL leaves the order to the store
RECURSIVE Orders(_)
Orders(rows) ==
    IF rows = <<>> THEN {<<>>}
    ELSE UNION { { <<rows[i]>> \o rest :
                     rest \in Orders([j \in 1..(Len(rows) - 1) |->
                                         IF j < i THEN rows[j] ELSE rows[j + 1]]) }
                 : i \in DOMAIN rows }

\* SELECT category, amount FROM budgets WHERE user_id=? AND month=?
\* in rowid order; a handler receives one of Orders(..) of it
SelectBudgets(conn, uid, ym) ==
    LET found == SelectSeq(conn.budgets,
                           LAMBDA b : b.user_id = uid /\ b.month = ym)
    IN [i \in DOMAIN found |->
           [category |-> found[i].category, amount |-> found[i].amount]]

\* Whether fetching `rows` fails in the DATE converter
ConvertFails(rows) == \E i \in DOMAIN rows : ~ConvertOk(rows[i].date)

(***************************************************************************)
(* add_expense                                                             *)
(***************************************************************************)
LARGE_EXPENSE_THRESHOLD == 5000000

\* A category check that calls spent = budget exceeded
CategoryBudgetCheck_ge(conn, uid, category, ym, budget_cat) ==
    LET spent_now == _spent_in_category_month(conn, uid, category, ym)
        budget_amt == budget_cat.amount
        msg == [about |-> "category", category |-> _display_category(category),
                month |-> ym, spent |-> Round2(spent_now),
                budget |-> Round2(budget_amt)]
    IN [spent |-> spent_now,
        budget |-> budget_amt,
        flashes |->
            IF spent_now >= budget_amt
            THEN <<[level |-> "danger", msg |-> msg]>>
            ELSE IF 4 * spent_now >= 3 * budget_amt
            THEN <<[level |-> "warning", msg |-> msg]>>
            ELSE <<>>]

\* The category budget check of add_expense: the spent amount it read and
\* the message it flashed, <<>> when there is none
CategoryBudgetCheck(conn, uid, category, ym, budget_cat) ==
    LET spent_now == _spent_in_category_month(conn, uid, category, ym)
        budget_amt == budget_cat.amount
        msg == [about |-> "category", category |-> _display_category(category),
                month |-> ym, spent |-> Round2(spent_now),
                budget |-> Round2(budget_amt)]
    IN [spent |-> spent_now,
        budget |-> budget_amt,
        flashes |->
            IF spent_now > budget_amt
            THEN <<[level |-> "danger", msg |-> msg]>>
            ELSE IF 4 * spent_now >= 3 * budget_amt
            THEN <<[level |-> "warning", msg |-> msg]>>
            ELSE <<>>]

\* The total budget check of add_expense
TotalBudgetCheck(conn, uid, ym, budget_total) ==
    LET total_spent_now == _spent_total_month(conn, uid, ym)
        total_budget_amt == budget_total.amount
        msg == [about |-> "total", category |-> TOTAL_BUDGET_LABEL,
                month |-> ym, spent |-> Round2(total_spent_now),
                budget |-> Round2(total_budget_amt)]
    IN [spent |-> total_spent_now,
        budget |-> total_budget_amt,
        flashes |->
            IF total_spent_now > total_budget_amt
            THEN <<[level |-> "danger", msg |-> msg]>>
            ELSE IF 4 * total_spent_now >= 3 * total_budget_amt
            THEN <<[level |-> "warning", msg |-> msg]>>
            ELSE <<>>]

\* INSERT INTO a table with an AUTOINCREMENT id
InsertRow(table, seq, row) == Append(table, [row EXCEPT !.id = seq + 1])

\* POST /add as user uid.  The response keeps the request's locals: the
\* checks made (cat_check, total_check: <<>> when skipped) and the flashes.
add_expense(uid, f_category, f_amount, f_date) ==
    LET category == _normalize_category(Field(OrElse(f_category, Uncategorized)))
        amount == IF f_amount.has THEN f_amount.v ELSE 0
        date_str == IF f_date.has THEN f_date.v ELSE isoformat(today)
        when == IF StrptimeOk(date_str) THEN isoformat(Strptime(date_str))
                ELSE isoformat(today)
        row == [id |-> 0, user_id |-> uid, category |-> category,
                amount |-> amount, date |-> when]
        conn == [get_db EXCEPT
                    !.expenses = InsertRow(expenses, sqlite_sequence.expenses, row)]
        ym == YearMonth(when)
        budget_cat == SelectBudget(conn, uid, category, ym)
        cat_check ==
            IF budget_cat # <<>> /\ category # TOTAL_BUDGET_KEY
            THEN <<CategoryBudgetCheck(conn, uid, category, ym, budget_cat[1])>>
            ELSE <<>>
        budget_total == SelectBudget(conn, uid, TOTAL_BUDGET_KEY, ym)
        total_check ==
            IF budget_total # <<>>
            THEN <<TotalBudgetCheck(conn, uid, ym, budget_total[1])>>
            ELSE <<>>
    IN /\ expenses' = conn.expenses
       /\ sqlite_sequence' =
              [sqlite_sequence EXCEPT !.expenses = sqlite_sequence.expenses + 1]
       /\ resp' = [handler |-> "add_expense", uid |-> uid, status |-> 302,
                   category |-> category, amount |-> amount, when |-> when,
                   month |-> ym,
                   cat_check |-> cat_check, total_check |-> total_check,
                   flashes |->
                       (IF cat_check = <<>> THEN <<>> ELSE cat_check[1].flashes)
                       \o (IF total_check = <<>> THEN <<>>
                           ELSE total_check[1].flashes),
                   notify_large |-> (amount >= LARGE_EXPENSE_THRESHOLD)]
       /\ UNCHANGED <<inflight, incomes, budgets, today>>

(***************************************************************************)
(* add_income                                                              *)
(***************************************************************************)
\* POST /add_income as user uid: the date field is stored as received
add_income(uid, f_amount, f_date) ==
    LET amount == IF f_amount.has THEN f_amount.v ELSE 0
        when == IF f_date.has THEN f_date.v ELSE isoformat(today)
        row == [id |-> 0, user_id |-> uid, amount |-> amount, date |-> when]
    IN /\ incomes' = InsertRow(incomes, sqlite_sequence.incomes, row)
       /\ sqlite_sequence' =
              [sqlite_sequence EXCEPT !.incomes = sqlite_sequence.incomes + 1]
       /\ resp' = [handler |-> "add_income", uid |-> uid, status |-> 302,
                   flashes |-> <<[level |-> "success", msg |-> "Income added."]>>]
       /\ UNCHANGED <<inflight, expenses, budgets, today>>

(***************************************************************************)
(* import_csv                                                              *)
(***************************************************************************)
\* The loop of import_csv over the rows of the file: the table after it.
\* A row is [date, amount, category], each a cell.
RECURSIVE ImportRows(_, _, _, _)
ImportRows(table, seq, uid, rows) ==
    IF rows = <<>> THEN table
    ELSE LET row == Head(rows)
             when == IF row.date.has THEN row.date.v ELSE isoformat(today)
             amt == IF row.amount.has THEN row.amount.v ELSE 0
             cat == _normalize_category(
                        Field(OrElse(row.category, Uncategorized)))
         IN ImportRows(
                InsertRow(table, seq,
                          [id |-> 0, user_id |-> uid, category |-> cat,
                           amount |-> amt, date |-> when]),
                seq + 1, uid, Tail(rows))

\* POST /import/csv as user uid with a file of `rows`
import_csv(uid, rows) ==
    /\ expenses' = ImportRows(expenses, sqlite_sequence.expenses, uid, rows)
    /\ sqlite_sequence' =
           [sqlite_sequence EXCEPT
               !.expenses = sqlite_sequence.expenses + Len(rows)]
    /\ resp' = [handler |-> "import_csv", uid |-> uid, status |-> 302,
                flashes |-> <<[level |-> "success", msg |-> "Imported",
                               count |-> Len(rows)]>>]
    /\ UNCHANGED <<inflight, incomes, budgets, today>>

(***************************************************************************)
(* budgets, delete_budget                                                  *)
(***************************************************************************)
\* A plain INSERT on a table without the UNIQUE constraint
Upsert_insert(table, seq, row) == InsertRow(table, seq, row)

\* INSERT OR REPLACE INTO budgets: the row in conflict on
\* UNIQUE(user_id, category, month) is deleted, the new row gets a new id
Upsert(table, seq, row) ==
    InsertRow(SelectSeq(table,
                  LAMBDA b : ~(b.user_id = row.user_id
                               /\ b.category = row.category
                               /\ b.month = row.month)),
              seq, row)

\* POST /budgets as user uid.  The response keeps, beside the request's
\* locals, the number of rows the REPLACE removed (`replaced`).
budgets_POST(uid, cat_raw, month, amount) ==
    LET cat == _normalize_category(Field(cat_raw))
        row == [id |-> 0, user_id |-> uid, category |-> cat,
                month |-> month, amount |-> amount]
    IN /\ budgets' = Upsert(budgets, sqlite_sequence.budgets, row)
       /\ sqlite_sequence' =
              [sqlite_sequence EXCEPT !.budgets = sqlite_sequence.budgets + 1]
       /\ resp' = [handler |-> "budgets", uid |-> uid, status |-> 302,
                   category |-> cat, month |-> month, amount |-> amount,
                   replaced |-> Len(budgets) + 1 - Len(budgets'),
                   flashes |->
                       <<[level |-> "success",
                          msg |-> IF cat = TOTAL_BUDGET_KEY
                                  THEN "Total monthly budget saved"
                                  ELSE "Budget saved."]>>]
       /\ UNCHANGED <<inflight, expenses, incomes, today>>

\* DELETE FROM a table WHERE id=? AND user_id=?
DeleteOwn(table, id, uid) ==
    SelectSeq(table, LAMBDA r : ~(r.id = id /\ r.user_id = uid))

\* POST /delete_budget/<budget_id> as user uid
delete_budget(uid, budget_id) ==
    /\ budgets' = DeleteOwn(budgets, budget_id, uid)
    /\ resp' = [handler |-> "delete_budget", uid |-> uid, status |-> 302,
                id |-> budget_id,
                flashes |-> <<[level |-> "success",
                               msg |-> "Budget deleted successfully."]>>]
    /\ UNCHANGED <<inflight, expenses, incomes, sqlite_sequence, today>>

(***************************************************************************)
(* delete_expense, delete_income, delete_all                               *)
(***************************************************************************)
\* POST /delete/expense/<expense_id> as user uid
delete_expense(uid, expense_id) ==
    /\ expenses' = DeleteOwn(expenses, expense_id, uid)
    /\ resp' = [handler |-> "delete_expense", uid |-> uid, status |-> 302,
                id |-> expense_id,
                flashes |-> <<[level |-> "success",
                               msg |-> "Expense deleted successfully."]>>]
    /\ UNCHANGED <<inflight, incomes, budgets, sqlite_sequence, today>>

\* POST /delete/income/<income_id> as user uid
delete_income(uid, income_id) ==
    /\ incomes' = DeleteOwn(incomes, income_id, uid)
    /\ resp' = [handler |-> "delete_income", uid |-> uid, status |-> 302,
                id |-> income_id,
                flashes |-> <<[level |-> "success",
                               msg |-> "Income deleted successfully."]>>]
    /\ UNCHANGED <<inflight, expenses, budgets, sqlite_sequence, today>>

\* POST /delete/all as user uid
delete_all(uid) ==
    /\ expenses' = SelectSeq(expenses, LAMBDA r : r.user_id # uid)
    /\ incomes' = SelectSeq(incomes, LAMBDA r : r.user_id # uid)
    /\ resp' = [handler |-> "delete_all", uid |-> uid, status |-> 302,
                flashes |-> <<[level |-> "warning",
                               msg |-> "All history cleared."]>>]
    /\ UNCHANGED <<inflight, budgets, sqlite_sequence, today>>

(***************************************************************************)
(* dashboard                                                               *)
(***************************************************************************)
\* The loop of dashboard over the budget rows: one progress record per row
\* whose category is not the total key
RECURSIVE DashboardProgress(_, _, _, _)
DashboardProgress(conn, uid, ym, rows) ==
    IF rows = <<>> THEN <<>>
    ELSE LET cat == Head(rows).category
             amt == Head(rows).amount
             spent == _spent_in_category_month(conn, uid, cat, ym)
             pct == IF amt # 0 THEN Percent(spent, amt) ELSE 0
             rest == DashboardProgress(conn, uid, ym, Tail(rows))
         IN IF cat = TOTAL_BUDGET_KEY THEN rest
            ELSE <<[category |-> _display_category(cat),
                    budget |-> Round2(amt),
                    spent |-> Round2(spent),
                    pct |-> pct]>> \o rest

\* next((b for b in rows if b["category"] == TOTAL_BUDGET_KEY), None)
TotalRow(rows) ==
    LET found == SelectSeq(rows, LAMBDA b : b.category = TOTAL_BUDGET_KEY)
    IN IF found = <<>> THEN <<>> ELSE <<Head(found)>>

\* progress with the total record appended instead of inserted at index 0
DashboardAllProgress_append(conn, uid, ym, rows) ==
    LET progress == DashboardProgress(conn, uid, ym, rows)
        total_budget_row == TotalRow(rows)
    IN IF total_budget_row = <<>> THEN progress
       ELSE LET total_budget_amt == total_budget_row[1].amount
                total_spent == _spent_total_month(conn, uid, ym)
                total_pct == IF total_budget_amt # 0
                             THEN Percent(total_spent, total_budget_amt)
                             ELSE 0
            IN progress \o <<[category |-> TOTAL_BUDGET_LABEL,
                              budget |-> Round2(total_budget_amt),
                              spent |-> Round2(total_spent),
                              pct |-> total_pct]>>

\* progress of dashboard: the category records, the total record inserted
\* at index 0 when there is a total budget row
DashboardAllProgress(conn, uid, ym, rows) ==
    LET progress == DashboardProgress(conn, uid, ym, rows)
        total_budget_row == TotalRow(rows)
    IN IF total_budget_row = <<>> THEN progress
       ELSE LET total_budget_amt == total_budget_row[1].amount
                total_spent == _spent_total_month(conn, uid, ym)
                total_pct == IF total_budget_amt # 0
                             THEN Percent(total_spent, total_budget_amt)
                             ELSE 0
            IN <<[category |-> TOTAL_BUDGET_LABEL,
                  budget |-> Round2(total_budget_amt),
                  spent |-> Round2(total_spent),
                  pct |-> total_pct]>> \o progress

\* The response of GET /dashboard?month=ym as user uid, the budgets query
\* having returned `rows`
DashboardResponse(conn, uid, ym, rows) ==
    LET b == month_bounds(ym)
        exps == InRange(conn.expenses, uid, b.first, b.last)
        incs == InRange(conn.incomes, uid, b.first, b.last)
        total_income == SumAmount(incs)
        total_expenses == SumAmount(exps)
        by_exp == GroupByDate(exps)
        by_inc == GroupByDate(incs)
    IN IF ConvertFails(exps) \/ ConvertFails(incs)
       THEN [handler |-> "dashboard", uid |-> uid, status |-> 500,
             selected_month |-> ym]
       ELSE [handler |-> "dashboard", uid |-> uid, status |-> 200,
             selected_month |-> ym,
             total_income |-> Round2(total_income),
             total_expenses |-> Round2(total_expenses),
             balance |-> Round2(total_income - total_expenses),
             expenses |-> {exps[i] : i \in DOMAIN exps},
             income |-> {incs[i] : i \in DOMAIN incs},
             budgets |-> rows,
             progress |-> DashboardAllProgress(conn, uid, ym, rows),
             chart_labels |-> [i \in DOMAIN by_exp |-> by_exp[i].date],
             chart_expense |-> [i \in DOMAIN by_exp |-> Round2(by_exp[i].total)],
             chart_income |-> [i \in DOMAIN by_inc |-> Round2(by_inc[i].total)]]

\* GET /dashboard as user uid; f_month absent: the current month
dashboard(uid, f_month) ==
    LET ym == IF f_month.has THEN f_month.v ELSE [y |-> today.y, m |-> today.m]
    IN /\ \E rows \in Orders(SelectBudgets(get_db, uid, ym)) :
              resp' = DashboardResponse(get_db, uid, ym, rows)
       /\ UNCHANGED <<inflight, expenses, incomes, budgets, sqlite_sequence, today>>

(***************************************************************************)
(* api_budget_status                                                       *)
(***************************************************************************)
\* The loop of api_budget_status over the budget rows
RECURSIVE StatusRecords(_, _, _, _)
StatusRecords(conn, uid, ym, rows) ==
    IF rows = <<>> THEN <<>>
    ELSE LET cat == Head(rows).category
             amt == Head(rows).amount
             spent == _spent_in_category_month(conn, uid, cat, ym)
             pct == IF amt > 0 THEN Percent(spent, amt) ELSE 0
             rest == StatusRecords(conn, uid, ym, Tail(rows))
         IN IF cat = TOTAL_BUDGET_KEY THEN rest
            ELSE <<[category |-> _display_category(cat),
                    budget |-> Round2(amt),
                    spent |-> Round2(spent),
                    pct |-> pct,
                    exceeded |-> (spent > amt)]>> \o rest

\* status of api_budget_status
StatusAll(conn, uid, ym, rows) ==
    LET status == StatusRecords(conn, uid, ym, rows)
        total_row == TotalRow(rows)
    IN IF total_row = <<>> THEN status
       ELSE LET amt == total_row[1].amount
                spent == _spent_total_month(conn, uid, ym)
                pct == IF amt > 0 THEN Percent(spent, amt) ELSE 0
            IN <<[category |-> TOTAL_BUDGET_LABEL,
                  budget |-> Round2(amt),
                  spent |-> Round2(spent),
                  pct |-> pct,
                  exceeded |-> (spent > amt)]>> \o status

\* The response of GET /api/budget_status?month=ym as user uid
BudgetStatusResponse(conn, uid, ym, rows) ==
    [handler |-> "api_budget_status", uid |-> uid, status |-> 200,
     month |-> ym, budgets |-> rows,
     progress |-> StatusAll(conn, uid, ym, rows)]

\* GET /api/budget_status as user uid
api_budget_status(uid, f_month) ==
    LET ym == IF f_month.has THEN f_month.v ELSE [y |-> today.y, m |-> today.m]
    IN /\ \E rows \in Orders(SelectBudgets(get_db, uid, ym)) :
              resp' = BudgetStatusResponse(get_db, uid, ym, rows)
       /\ UNCHANGED <<inflight, expenses, incomes, budgets, sqlite_sequence, today>>

(***************************************************************************)
(* api_trend                                                               *)
(***************************************************************************)
\* by_day.get(d, 0.0), by_day the per-date sums `groups`
ByDayGet(groups, d) ==
    LET found == SelectSeq(groups, LAMBDA g : g.date = d)
    IN IF found = <<>> THEN 0 ELSE found[1].total

\* The response of GET /api/trend/<days> as user uid on the day `end`
TrendResponse(conn, uid, days, end) ==
    LET start == PlusDays(end, -(days - 1))
        rows == InRange(conn.expenses, uid, start, end)
        by_day == GroupByDate(rows)
        labels == [i \in 1..days |-> isoformat(PlusDays(start, i - 1))]
    IN IF ConvertFails(rows)
       THEN [handler |-> "api_trend", uid |-> uid, status |-> 500, days |-> days,
             end |-> end]
       ELSE [handler |-> "api_trend", uid |-> uid, status |-> 200, days |-> days,
             end |-> end,
             labels |-> labels,
             data |-> [i \in 1..days |-> Round2(ByDayGet(by_day, labels[i]))]]

\* GET /api/trend/<days> as user uid
api_trend(uid, days) ==
    /\ resp' = TrendResponse(get_db, uid, days, today)
    /\ UNCHANGED <<inflight, expenses, incomes, budgets, sqlite_sequence, today>>

(***************************************************************************)
(* The clock                                                               *)
(***************************************************************************)
\* Midnight passes: date.today() is the next day
Midnight ==
    /\ today' = NextDay(today)
    /\ UNCHANGED <<inflight, expenses, incomes, budgets, sqlite_sequence, resp>>

(***************************************************************************)
(* Inputs of the requests                                                  *)
(***************************************************************************)
MaxRows == 3          \* rows ever inserted, over the three tables
MaxTrendDays == 2     \* the largest <days> asked of /api/trend
MaxMidnights == 1     \* midnights that pass after FirstDay
MaxLen == 3           \* the longest category text typed, in characters
MaxRequests == 2      \* add-expense requests served concurrently
MaxBudgetSaves == 2   \* budget saves made before the concurrent requests

Food == <<"F","o","o","d">>
Rent == <<"R","e","n","t">>

June == [y |-> 2025, m |-> 6]
July == [y |-> 2025, m |-> 7]
FirstDay == PyDate(2025, 6, 30)

\* "2025-06-30" and "2025-06-30 12:00:00"
June30 == [y |-> 2025, m |-> 6, d |-> 30, time |-> FALSE]
June30Noon == [y |-> 2025, m |-> 6, d |-> 30, time |-> TRUE]
\* "2025-06-31", which strptime rejects
June31 == [y |-> 2025, m |-> 6, d |-> 31, time |-> FALSE]
July1 == [y |-> 2025, m |-> 7, d |-> 1, time |-> FALSE]

NoResponse == [handler |-> "none", uid |-> 0, status |-> 0]

\* The concurrent requests, and a request whose handler has not started
Requests == 1..MaxRequests
Idle == [pc |-> "idle"]

\* Rows inserted so far
RowsEver ==
    sqlite_sequence.expenses + sqlite_sequence.incomes + sqlite_sequence.budgets

Init ==
    /\ expenses = <<>>
    /\ incomes = <<>>
    /\ budgets = <<>>
    /\ sqlite_sequence = [expenses |-> 0, incomes |-> 0, budgets |-> 0]
    /\ today = FirstDay
    /\ resp = NoResponse
    /\ inflight = [r \in Requests |-> Idle]

(***************************************************************************)
(* Spec: every handler, two users                                          *)
(***************************************************************************)
Users == {1, 2}

AddExpense ==
    /\ RowsEver < MaxRows
    /\ \E uid \in Users : add_expense(uid, Field(Food), Field(30000), Absent)

AddIncome ==
    /\ RowsEver < MaxRows
    /\ \E uid \in Users : add_income(uid, Field(10000), Absent)

ImportCsv ==
    /\ RowsEver < MaxRows
    /\ \E uid \in Users :
           import_csv(uid, <<[date |-> Field(June30Noon),
                              amount |-> Field(30000),
                              category |-> Field(Food)]>>)

SaveBudget ==
    /\ RowsEver < MaxRows
    /\ \E uid \in Users, cat_raw \in {Food, <<"a","l","l">>} :
           budgets_POST(uid, cat_raw, June, 40000)

DeleteBudget ==
    \E uid \in Users, id \in 1..sqlite_sequence.budgets : delete_budget(uid, id)

DeleteExpense ==
    \E uid \in Users, id \in 1..sqlite_sequence.expenses : delete_expense(uid, id)

DeleteIncome ==
    \E uid \in Users, id \in 1..sqlite_sequence.incomes : delete_income(uid, id)

DeleteAll == \E uid \in Users : delete_all(uid)

Dashboard == \E uid \in Users : dashboard(uid, Absent)

BudgetStatus == \E uid \in Users : api_budget_status(uid, Field(June))

Trend == \E uid \in Users, days \in 1..MaxTrendDays : api_trend(uid, days)

Next ==
    \/ AddExpense
    \/ AddIncome
    \/ ImportCsv
    \/ SaveBudget
    \/ DeleteBudget
    \/ DeleteExpense
    \/ DeleteIncome
    \/ DeleteAll
    \/ Dashboard
    \/ BudgetStatus
    \/ Trend

Spec == Init /\ [][Next]_vars

(***************************************************************************)
(* SpecBudget: one user, the budget checks and the progress records        *)
(***************************************************************************)
BudgetAddExpense ==
    /\ RowsEver < MaxRows
    /\ \E category \in {Food, Rent}, amount \in {10000, 30000, 50000},
          f_date \in {Field(June30), Field(June31)} :
           add_expense(1, Field(category), Field(amount), f_date)

BudgetImportCsv ==
    /\ RowsEver < MaxRows
    /\ import_csv(1, <<[date |-> Field(June30Noon), amount |-> Field(30000),
                        category |-> Field(Food)]>>)

BudgetSave ==
    /\ RowsEver < MaxRows
    /\ \E cat_raw \in {Food, Rent, <<" ","A","L","L"," ">>},
          amount \in {0, 40000} :
           budgets_POST(1, cat_raw, June, amount)

BudgetDelete == \E id \in 1..sqlite_sequence.budgets : delete_budget(1, id)

BudgetDeleteExpense ==
    \E id \in 1..sqlite_sequence.expenses : delete_expense(1, id)

BudgetDashboard == dashboard(1, Field(June))

BudgetStatusJune == api_budget_status(1, Absent)

NextBudget ==
    \/ BudgetAddExpense
    \/ BudgetImportCsv
    \/ BudgetSave
    \/ BudgetDelete
    \/ BudgetDeleteExpense
    \/ BudgetDashboard
    \/ BudgetStatusJune

SpecBudget == Init /\ [][NextBudget]_vars

(***************************************************************************)
(* SpecSeries: one user, the chart series, the clock                       *)
(***************************************************************************)
SeriesAddExpense ==
    /\ RowsEver < MaxRows
    /\ \E amount \in {10000, 30000}, f_date \in {Absent, Field(June30)} :
           add_expense(1, Field(Food), Field(amount), f_date)

SeriesAddIncome ==
    /\ RowsEver < MaxRows
    /\ \E f_date \in {Absent, Field(June30)} :
           add_income(1, Field(10000), f_date)

SeriesImportCsv ==
    /\ RowsEver < MaxRows
    /\ import_csv(1, <<[date |-> Field(June30Noon), amount |-> Field(30000),
                        category |-> Field(Food)]>>)

SeriesDeleteExpense ==
    \E id \in 1..sqlite_sequence.expenses : delete_expense(1, id)

SeriesDashboard == dashboard(1, Absent)

SeriesTrend == \E days \in 0..MaxTrendDays : api_trend(1, days)

SeriesTick == today # PlusDays(FirstDay, MaxMidnights) /\ Midnight

NextSeries ==
    \/ SeriesAddExpense
    \/ SeriesAddIncome
    \/ SeriesImportCsv
    \/ SeriesDeleteExpense
    \/ SeriesDashboard
    \/ SeriesTrend
    \/ SeriesTick

SpecSeries == Init /\ [][NextSeries]_vars

(***************************************************************************)
(* SpecCategory: one user, the category field as typed                     *)
(***************************************************************************)
\* absent, "", " ", "Food", " Food ", "Total", " all "
RawCategories ==
    { Absent, Field(<<>>), Field(<<" ">>), Field(Food),
      Field(<<" ","F","o","o","d"," ">>), Field(<<"T","o","t","a","l">>),
      Field(<<" ","a","l","l"," ">>) }

CategoryAddExpense ==
    /\ RowsEver < MaxRows
    /\ \E f_category \in RawCategories :
           add_expense(1, f_category, Field(10000), Absent)

CategoryImportCsv ==
    /\ RowsEver < MaxRows
    /\ \E f_category \in RawCategories :
           import_csv(1, <<[date |-> Field(June30), amount |-> Field(10000),
                            category |-> f_category]>>)

CategoryDeleteExpense ==
    \E id \in 1..sqlite_sequence.expenses : delete_expense(1, id)

NextCategory ==
    \/ CategoryAddExpense
    \/ CategoryImportCsv
    \/ CategoryDeleteExpense

SpecCategory == Init /\ [][NextCategory]_vars

(***************************************************************************)
(* Properties of the budget checks (SpecBudget)                            *)
(***************************************************************************)
\* The expenses of user uid dated in the calendar month ym, in store order
ExpensesOfMonth(uid, ym) ==
    SelectSeq(expenses,
        LAMBDA e : e.user_id = uid /\ e.date.y = ym.y /\ e.date.m = ym.m)

\* The levels of the budget messages of the last add_expense about the
\* category budget ("category") or the total budget ("total")
FlashLevels(about) ==
    LET fs == SelectSeq(resp.flashes, LAMBDA f : f.msg.about = about)
    IN [i \in DOMAIN fs |-> fs[i].level]

\* Two budget rows of the same (user, category key, month)
SameTriple(a, b) ==
    a.user_id = b.user_id /\ a.category = b.category /\ a.month = b.month

\* C1: in add_expense, every budget row of the expense's month (the budget
\* of the expense's category, the total budget) with amount B > 0 is
\* checked, and with S the spent amount the check read after the insert:
\* no message when S < 0.75*B, exactly one warning when 0.75*B <= S <= B,
\* exactly one exceeded (danger) message when S > B.
C1_Thresholds ==
    resp.handler = "add_expense" =>
        \A about \in {"category", "total"} :
            LET check == IF about = "category" THEN resp.cat_check
                         ELSE resp.total_check
                key == IF about = "category" THEN resp.category
                       ELSE TOTAL_BUDGET_KEY
            IN \A i \in DOMAIN budgets :
                   ( /\ budgets[i].user_id = resp.uid
                     /\ budgets[i].category = key
                     /\ budgets[i].month = resp.month
                     /\ budgets[i].amount > 0 ) =>
                       /\ check # <<>>
                       /\ check[1].budget = budgets[i].amount
                       /\ LET S == check[1].spent
                              B == budgets[i].amount
                          IN FlashLevels(about) =
                                 IF S > B THEN <<"danger">>
                                 ELSE IF 4 * S >= 3 * B THEN <<"warning">>
                                 ELSE <<>>

\* An add_expense that brought the category's spent amount to exactly the
\* budget and got the warning
C1_AtBudgetWarns ==
    /\ resp.handler = "add_expense"
    /\ resp.cat_check # <<>>
    /\ resp.cat_check[1].budget > 0
    /\ resp.cat_check[1].spent = resp.cat_check[1].budget
    /\ FlashLevels("category") = <<"warning">>

\* C2: the spent amount each check of add_expense compares with the budget
\* is the sum of the user's expenses of the category and month (of the
\* whole month, for the total budget) in the store after the insert.
C2_CheckReadsStoreAfterInsert ==
    resp.handler = "add_expense" =>
        LET mine == ExpensesOfMonth(resp.uid, resp.month)
            inCat == SelectSeq(mine, LAMBDA e : e.category = resp.category)
        IN /\ resp.cat_check # <<>> =>
                  resp.cat_check[1].spent = SumAmount(inCat)
           /\ resp.total_check # <<>> =>
                  resp.total_check[1].spent = SumAmount(mine)

\* C3: a budget row of amount zero is OK whatever was spent: add_expense
\* surfaces no budget message for it, its progress record reports percent
\* 0, and its budget status record is not flagged exceeded.
C3_ZeroBudgetIsOk ==
    /\ resp.handler = "add_expense" =>
           /\ (resp.cat_check # <<>> /\ resp.cat_check[1].budget = 0) =>
                  FlashLevels("category") = <<>>
           /\ (resp.total_check # <<>> /\ resp.total_check[1].budget = 0) =>
                  FlashLevels("total") = <<>>
    /\ (resp.handler \in {"dashboard", "api_budget_status"}
        /\ resp.status = 200) =>
           \A i \in DOMAIN resp.progress :
               resp.progress[i].budget = 0 =>
                   /\ resp.progress[i].pct = 0
                   /\ resp.handler = "api_budget_status" =>
                          ~resp.progress[i].exceeded

\* C4: after every step the budgets hold at most one row per (user,
\* category key, month), and a budget save leaves exactly one row of its
\* triple, carrying the saved amount, and the rows of every other triple
\* as they were.
C4_UniqueUpsert ==
    [][ /\ \A i, j \in DOMAIN budgets' :
               SameTriple(budgets'[i], budgets'[j]) => i = j
        /\ resp'.handler = "budgets" =>
               LET t == [user_id |-> resp'.uid, category |-> resp'.category,
                         month |-> resp'.month]
               IN /\ \E i \in DOMAIN budgets' :
                         /\ SameTriple(budgets'[i], t)
                         /\ budgets'[i].amount = resp'.amount
                  /\ SelectSeq(budgets', LAMBDA b : ~SameTriple(b, t))
                         = SelectSeq(budgets, LAMBDA b : ~SameTriple(b, t))
      ]_vars

\* A save that replaced the row of its triple by one of another amount
\* while a row of another triple is stored
C4_Replaced ==
    /\ resp.handler = "budgets"
    /\ resp.replaced = 1
    /\ Len(budgets) = 2
    /\ \E i \in DOMAIN budgets :
           /\ budgets[i].id = sqlite_sequence.budgets
           /\ budgets[i].category = resp.category
           /\ budgets[i].amount = resp.amount

\* C6: the progress sequence of the dashboard and of api_budget_status
\* starts with the total record if and only if the budget rows returned for
\* the month hold the sentinel row, and continues with exactly one record
\* per non-sentinel row, in the order the rows were returned; no record is
\* a per-category evaluation of the sentinel.
C6_ProgressOrder ==
    (resp.handler \in {"dashboard", "api_budget_status"} /\ resp.status = 200) =>
        LET ym == IF resp.handler = "dashboard" THEN resp.selected_month
                  ELSE resp.month
            rows == resp.budgets
            hasTotal == \E i \in DOMAIN rows :
                            rows[i].category = TOTAL_BUDGET_KEY
            cats == SelectSeq(rows, LAMBDA b : b.category # TOTAL_BUDGET_KEY)
            off == IF hasTotal THEN 1 ELSE 0
            p == resp.progress
        IN /\ rows \in Orders(SelectBudgets(get_db, resp.uid, ym))
           /\ Len(p) = Len(cats) + off
           /\ hasTotal => p[1].category = TOTAL_BUDGET_LABEL
           /\ \A i \in DOMAIN p :
                  /\ p[i].category # TOTAL_BUDGET_KEY
                  /\ p[i].category = TOTAL_BUDGET_LABEL => (hasTotal /\ i = 1)
           /\ \A i \in DOMAIN cats :
                  /\ p[i + off].category = _display_category(cats[i].category)
                  /\ p[i + off].budget = cats[i].amount

\* A progress of three records, total first, built from rows the store
\* returned with the sentinel row not first
C6_TotalMovedFirst ==
    /\ resp.handler \in {"dashboard", "api_budget_status"}
    /\ resp.status = 200
    /\ Len(resp.progress) = 3
    /\ resp.progress[1].category = TOTAL_BUDGET_LABEL
    /\ resp.budgets[1].category # TOTAL_BUDGET_KEY

\* C7: the spent amount of the total record of a month is the sum of all
\* the user's expenses dated in that month, over every category.
C7_TotalSpentIsMonthSum ==
    (resp.handler \in {"dashboard", "api_budget_status"} /\ resp.status = 200) =>
        LET ym == IF resp.handler = "dashboard" THEN resp.selected_month
                  ELSE resp.month
        IN \A i \in DOMAIN resp.progress :
               resp.progress[i].category = TOTAL_BUDGET_LABEL =>
                   resp.progress[i].spent
                       = SumAmount(ExpensesOfMonth(resp.uid, ym))

(***************************************************************************)
(* Tenant isolation (Spec)                                                 *)
(***************************************************************************)
\* The rows of a table owned by user uid, in store order
OwnRows(table, uid) == SelectSeq(table, LAMBDA r : r.user_id = uid)

\* C5: a request made as user A leaves the expenses, incomes and budgets of
\* every other user as they were (whatever id a deletion names), and
\* everything it computes (the sums add_expense checks, the responses of the
\* dashboard, of the budget status and of the trend) is what the handler
\* computes on a store holding A's rows only.
C5_TenantIsolation ==
    [][ LET A == resp'.uid
            own == [expenses |-> OwnRows(expenses', A),
                    incomes |-> OwnRows(incomes', A),
                    budgets |-> OwnRows(budgets', A)]
        IN /\ \A B \in Users \ {A} :
                  /\ OwnRows(expenses', B) = OwnRows(expenses, B)
                  /\ OwnRows(incomes', B) = OwnRows(incomes, B)
                  /\ OwnRows(budgets', B) = OwnRows(budgets, B)
           /\ resp'.handler = "add_expense" =>
                  LET bc == SelectBudget(own, A, resp'.category, resp'.month)
                      bt == SelectBudget(own, A, TOTAL_BUDGET_KEY, resp'.month)
                  IN /\ resp'.cat_check =
                            IF bc = <<>> THEN <<>>
                            ELSE <<CategoryBudgetCheck(own, A, resp'.category,
                                                       resp'.month, bc[1])>>
                     /\ resp'.total_check =
                            IF bt = <<>> THEN <<>>
                            ELSE <<TotalBudgetCheck(own, A, resp'.month, bt[1])>>
           /\ resp'.handler = "dashboard" =>
                  \E rows \in Orders(SelectBudgets(own, A, resp'.selected_month)) :
                      resp' = DashboardResponse(own, A, resp'.selected_month, rows)
           /\ resp'.handler = "api_budget_status" =>
                  \E rows \in Orders(SelectBudgets(own, A, resp'.month)) :
                      resp' = BudgetStatusResponse(own, A, resp'.month, rows)
           /\ resp'.handler = "api_trend" =>
                  resp' = TrendResponse(own, A, resp'.days, resp'.end)
      ]_vars

\* A deletion that named the id of an expense of another user, which is
\* still stored
C5_ForeignIdKept ==
    /\ resp.handler = "delete_expense"
    /\ \E i \in DOMAIN expenses :
           /\ expenses[i].id = resp.id
           /\ expenses[i].user_id # resp.uid

(***************************************************************************)
(* Chart series (SpecSeries)                                               *)
(***************************************************************************)
\* The sum of the rows of a table of user uid whose date is the calendar
\* day of the date text d
SumOnDay(table, uid, d) ==
    SumAmount(SelectSeq(table,
        LAMBDA r : /\ r.user_id = uid
                   /\ r.date.y = d.y /\ r.date.m = d.m /\ r.date.d = d.d))

\* C8: for days >= 1 the trend returns exactly `days` labels and values,
\* the labels being the consecutive days ending on the day of the request,
\* ascending, and each value the sum of the user's expenses on that day (0
\* when there is none).
C8_TrendSeries ==
    (resp.handler = "api_trend" /\ resp.days >= 1) =>
        /\ resp.status = 200
        /\ Len(resp.labels) = resp.days
        /\ Len(resp.data) = resp.days
        /\ \A i \in 1..resp.days :
               /\ resp.labels[i] = isoformat(PlusDays(resp.end, i - resp.days))
               /\ resp.data[i] = SumOnDay(expenses, resp.uid, resp.labels[i])

\* C9: the month series of the dashboard share one date axis: labels,
\* expense values and income values have the same length, and the values at
\* index i are the sums of the user's expenses and incomes on labels[i].
C9_SeriesAligned ==
    (resp.handler = "dashboard" /\ resp.status = 200) =>
        /\ Len(resp.chart_expense) = Len(resp.chart_labels)
        /\ Len(resp.chart_income) = Len(resp.chart_labels)
        /\ \A i \in DOMAIN resp.chart_labels :
               /\ resp.chart_expense[i]
                      = SumOnDay(expenses, resp.uid, resp.chart_labels[i])
               /\ resp.chart_income[i]
                      = SumOnDay(incomes, resp.uid, resp.chart_labels[i])

(***************************************************************************)
(* Stored categories (SpecCategory)                                        *)
(***************************************************************************)
\* C10: every stored expense has a non-empty category without leading or
\* trailing whitespace.
C10_CategoryNormalized ==
    \A i \in DOMAIN expenses :
        /\ expenses[i].category # <<>>
        /\ Strip(expenses[i].category) = expenses[i].category

(***************************************************************************)
(* SpecAmount: one user, the amount field as typed                         *)
(***************************************************************************)
\* "-10", "0", "10": what float() accepts includes negative numbers
RawAmounts == {-10000, 0, 10000}

AmountAddExpense ==
    /\ RowsEver < MaxRows
    /\ \E amount \in RawAmounts :
           add_expense(1, Field(Food), Field(amount), Absent)

AmountAddIncome ==
    /\ RowsEver < MaxRows
    /\ \E amount \in RawAmounts : add_income(1, Field(amount), Absent)

AmountImportCsv ==
    /\ RowsEver < MaxRows
    /\ \E amount \in RawAmounts :
           import_csv(1, <<[date |-> Field(June30), amount |-> Field(amount),
                            category |-> Field(Food)]>>)

NextAmount ==
    \/ AmountAddExpense
    \/ AmountAddIncome
    \/ AmountImportCsv

SpecAmount == Init /\ [][NextAmount]_vars

\* C11: every stored expense and every stored income has a non-negative
\* amount.
C11_AmountsNonNegative ==
    /\ \A i \in DOMAIN expenses : expenses[i].amount >= 0
    /\ \A i \in DOMAIN incomes : incomes[i].amount >= 0

(***************************************************************************)
(* SpecNormalize: _normalize_category applied to a category as typed       *)
(***************************************************************************)
Alphabet == {" ", "a", "l", "L", "*", "F"}

\* absent, every text of at most MaxLen characters of Alphabet, and
\* "total", "Total", "overall", " OVERALL ", " Food "
RawTexts ==
    {Absent}
    \cup { Field(t) : t \in UNION { [1..n -> Alphabet] : n \in 0..MaxLen } }
    \cup { Field(<<"t","o","t","a","l">>), Field(<<"T","o","t","a","l">>),
           Field(<<"o","v","e","r","a","l","l">>),
           Field(<<" ","O","V","E","R","A","L","L"," ">>),
           Field(<<" ","F","o","o","d"," ">>) }

\* cat -> _normalize_category(cat) -> _normalize_category of the result
Normalize ==
    /\ \E cat \in RawTexts :
           LET once == _normalize_category(cat)
               twice == _normalize_category(Field(once))
           IN resp' = [handler |-> "_normalize_category", uid |-> 0,
                       status |-> 0, cat |-> cat,
                       once |-> once, twice |-> twice]
    /\ UNCHANGED <<inflight, expenses, incomes, budgets, sqlite_sequence, today>>

NextNormalize == Normalize

SpecNormalize == Init /\ [][NextNormalize]_vars

\* C12: normalizing a normalized category changes nothing, and every text
\* whose trimmed lower-cased form is total, overall, all or * is normalized
\* to the total key.
C12_Idempotent ==
    resp.handler = "_normalize_category" =>
        /\ resp.twice = resp.once
        /\ (resp.cat.has /\ Lower(Strip(resp.cat.v)) \in TotalWords) =>
               resp.once = TOTAL_BUDGET_KEY

(***************************************************************************)
(* SpecMonth: month_bounds applied to a month token                        *)
(***************************************************************************)
\* The years of the tokens: the first and last years of a date, leap years
\* and century years
Years == {1, 4, 100, 400, 1900, 2000, 2023, 2024, 2025, 9998, MAXYEAR}

MonthBounds ==
    /\ \E y \in Years, m \in 1..12 :
           LET ym == [y |-> y, m |-> m]
           IN resp' = IF month_bounds_raises(ym)
                      THEN [handler |-> "month_bounds", uid |-> 0,
                            status |-> 500, ym |-> ym]
                      ELSE [handler |-> "month_bounds", uid |-> 0,
                            status |-> 200, ym |-> ym,
                            first |-> month_bounds(ym).first,
                            last |-> month_bounds(ym).last]
    /\ UNCHANGED <<inflight, expenses, incomes, budgets, sqlite_sequence, today>>

NextMonth == MonthBounds

SpecMonth == Init /\ [][NextMonth]_vars

\* C13: for every month token, month_bounds returns day 1 of the month and
\* the day before day 1 of the following month (January of the next year
\* after December): a day of the same month and year, the 28th, 29th, 30th
\* or 31st by the Gregorian calendar.
C13_MonthBounds ==
    resp.handler = "month_bounds" =>
        LET y == resp.ym.y
            m == resp.ym.m
            leap == (y % 4 = 0) /\ (y % 100 # 0 \/ y % 400 = 0)
            len == IF m = 2 THEN (IF leap THEN 29 ELSE 28)
                   ELSE IF m \in {4, 6, 9, 11} THEN 30 ELSE 31
        IN /\ resp.status = 200
           /\ resp.first = [y |-> y, m |-> m, d |-> 1]
           /\ resp.last = [y |-> y, m |-> m, d |-> len]
           /\ NextDay(resp.last) = IF m = 12 THEN [y |-> y + 1, m |-> 1, d |-> 1]
                                   ELSE [y |-> y, m |-> m + 1, d |-> 1]

(***************************************************************************)
(* predict_next_month                                                      *)
(***************************************************************************)
\* The month tokens of S in ascending order (ORDER BY ym)
RECURSIVE SortMonths(_)
SortMonths(S) ==
    IF S = {} THEN <<>>
    ELSE LET lo == CHOOSE x \in S : \A y \in S :
                       x.y < y.y \/ (x.y = y.y /\ x.m <= y.m)
         IN <<lo>> \o SortMonths(S \ {lo})

\* SELECT strftime('%Y-%m', date) AS ym, COALESCE(SUM(amount),0) AS s
\* FROM expenses WHERE user_id=? GROUP BY ym ORDER BY ym: the sums
MonthTotals(conn, uid) ==
    LET mine == SelectSeq(conn.expenses, LAMBDA e : e.user_id = uid)
        yms == SortMonths({strftime_ym(mine[i].date) : i \in DOMAIN mine})
    IN [i \in DOMAIN yms |->
           SumAmount(SelectSeq(mine, LAMBDA e : strftime_ym(e.date) = yms[i]))]

\* sum(xs)
RECURSIVE SumSeq(_)
SumSeq(xs) == IF xs = <<>> THEN 0 ELSE Head(xs) + SumSeq(Tail(xs))

\* round(num / den, 2) for den > 0, in thousandths: the nearest hundredth;
\* for a value halfway between two hundredths the result depends on the
\* binary float that stands for it, so both neighbours are possible
Round2Choices(num, den) ==
    LET q == num \div (10 * den)
        r == num - q * 10 * den
    IN IF 2 * r < 10 * den THEN {10 * q}
       ELSE IF 2 * r > 10 * den THEN {10 * (q + 1)}
       ELSE {10 * q, 10 * (q + 1)}

\* A prediction that divides the sum of the deltas by the number of totals
Predictions_n(totals) ==
    IF Len(totals) >= 2
    THEN LET diffs == [i \in 1..(Len(totals) - 1) |-> totals[i + 1] - totals[i]]
         IN Round2Choices(totals[Len(totals)] * Len(totals) + SumSeq(diffs),
                          Len(totals))
    ELSE Round2Choices(totals[Len(totals)], 1)

\* pred of predict_next_month for non-empty totals: the values round() can
\* return
Predictions(totals) ==
    IF Len(totals) >= 2
    THEN LET diffs == [i \in 1..(Len(totals) - 1) |-> totals[i + 1] - totals[i]]
         IN Round2Choices(totals[Len(totals)] * Len(diffs) + SumSeq(diffs),
                          Len(diffs))
    ELSE Round2Choices(totals[Len(totals)], 1)

\* advice of predict_next_month: pred against avg * 1.1 and avg * 0.9,
\* avg = sum(totals) / len(totals)
Advice(pred, totals) ==
    IF 10 * pred * Len(totals) > 11 * SumSeq(totals)
    THEN "Spending likely to grow. Try reducing top categories by ~10%."
    ELSE IF 10 * pred * Len(totals) < 9 * SumSeq(totals)
    THEN "Great job! Predicted spend below average."
    ELSE "On track"

\* GET /api/predict_next_month as user uid; the response keeps the local
\* totals
predict_next_month(uid) ==
    LET totals == MonthTotals(get_db, uid)
    IN /\ IF totals = <<>>
          THEN resp' = [handler |-> "predict_next_month", uid |-> uid,
                        status |-> 200, totals |-> totals, prediction |-> 0,
                        advice |-> "Add some data to see insights"]
          ELSE \E pred \in Predictions(totals) :
                   resp' = [handler |-> "predict_next_month", uid |-> uid,
                            status |-> 200, totals |-> totals,
                            prediction |-> pred,
                            advice |-> Advice(pred, totals)]
       /\ UNCHANGED <<inflight, expenses, incomes, budgets, sqlite_sequence, today>>

(***************************************************************************)
(* SpecPredict: one user, expenses of three months, the prediction         *)
(***************************************************************************)
\* "2025-05-31"
May31 == [y |-> 2025, m |-> 5, d |-> 31, time |-> FALSE]

\* 0.01, 100, 120, 140
PredictAmounts == {10, 100000, 120000, 140000}

PredictAddExpense ==
    /\ RowsEver < MaxRows
    /\ \E amount \in PredictAmounts,
          f_date \in {Field(May31), Field(June30), Field(July1)} :
           add_expense(1, Field(Food), Field(amount), f_date)

PredictNextMonth == predict_next_month(1)

NextPredict ==
    \/ PredictAddExpense
    \/ PredictNextMonth

SpecPredict == Init /\ [][NextPredict]_vars

\* C14: with no month total the prediction is 0 with the fixed advice; with
\* one total it is that total; with two or more it is the last total plus
\* the average of the month-over-month deltas, rounded to a hundredth (at
\* most half a hundredth away); the advice is the growing one iff the
\* returned prediction > 1.1 * average of the totals, the below-average one
\* iff it is < 0.9 * average, otherwise "On track".
C14_PredictionRounded ==
    resp.handler = "predict_next_month" =>
        LET t == resp.totals
            n == Len(t)
            p == resp.prediction
        IN /\ t = MonthTotals(get_db, resp.uid)
           /\ n = 0 => /\ p = 0
                       /\ resp.advice = "Add some data to see insights"
           /\ n = 1 => p = t[1]
           /\ n >= 2 =>
                  LET exact == t[n] * (n - 1) + (t[n] - t[1])
                      off == p * (n - 1) - exact
                  IN /\ p % 10 = 0
                     /\ 2 * off <= 10 * (n - 1)
                     /\ 2 * off >= -10 * (n - 1)
           /\ n >= 1 =>
                  /\ (resp.advice = "Spending likely to grow. Try reducing top categories by ~10%.")
                         <=> (10 * p * n > 11 * SumSeq(t))
                  /\ (resp.advice = "Great job! Predicted spend below average.")
                         <=> (10 * p * n < 9 * SumSeq(t))
                  /\ resp.advice \in
                         {"Spending likely to grow. Try reducing top categories by ~10%.",
                          "Great job! Predicted spend below average.",
                          "On track"}

\* Totals 100, 120, 140 predicted as 160 with the growing advice
C14_Scenario ==
    /\ resp.handler = "predict_next_month"
    /\ resp.totals = <<100000, 120000, 140000>>
    /\ resp.prediction = 160000
    /\ resp.advice = "Spending likely to grow. Try reducing top categories by ~10%."

\* C14 as stated: with two or more totals the prediction equals the last
\* total plus the average of the month-over-month deltas.
C14_PredictionExact ==
    (resp.handler = "predict_next_month" /\ Len(resp.totals) >= 2) =>
        LET t == resp.totals
            n == Len(t)
        IN resp.prediction * (n - 1) = t[n] * (n - 1) + (t[n] - t[1])

(***************************************************************************)
(* add_expense step by step: requests served concurrently                  *)
(***************************************************************************)
\* Request r runs POST /add as user uid up to conn.commit(): the row is
\* inserted and committed, visible to every connection from here on
add_expense_insert(r, uid, f_category, f_amount, f_date) ==
    LET category == _normalize_category(Field(OrElse(f_category, Uncategorized)))
        amount == IF f_amount.has THEN f_amount.v ELSE 0
        date_str == IF f_date.has THEN f_date.v ELSE isoformat(today)
        when == IF StrptimeOk(date_str) THEN isoformat(Strptime(date_str))
                ELSE isoformat(today)
        row == [id |-> 0, user_id |-> uid, category |-> category,
                amount |-> amount, date |-> when]
    IN /\ inflight[r].pc = "idle"
       /\ expenses' = InsertRow(expenses, sqlite_sequence.expenses, row)
       /\ sqlite_sequence' =
              [sqlite_sequence EXCEPT !.expenses = sqlite_sequence.expenses + 1]
       /\ inflight' = [inflight EXCEPT ![r] =
              [pc |-> "inserted", uid |-> uid, category |-> category,
               amount |-> amount, when |-> when, month |-> YearMonth(when),
               id |-> sqlite_sequence.expenses + 1]]
       /\ UNCHANGED <<incomes, budgets, today, resp>>

\* Request r makes its category budget check on the database as it is now
add_expense_category_check(r) ==
    LET q == inflight[r]
        budget_cat == SelectBudget(get_db, q.uid, q.category, q.month)
        cat_check ==
            IF budget_cat # <<>> /\ q.category # TOTAL_BUDGET_KEY
            THEN <<CategoryBudgetCheck(get_db, q.uid, q.category, q.month,
                                       budget_cat[1])>>
            ELSE <<>>
    IN /\ q.pc = "inserted"
       /\ inflight' = [inflight EXCEPT ![r] =
              [pc |-> "cat_checked", uid |-> q.uid, category |-> q.category,
               amount |-> q.amount, when |-> q.when, month |-> q.month,
               id |-> q.id, cat_check |-> cat_check]]
       /\ UNCHANGED <<expenses, incomes, budgets, sqlite_sequence, today, resp>>

\* Request r makes its total budget check on the database as it is now,
\* and returns
add_expense_total_check(r) ==
    LET q == inflight[r]
        budget_total == SelectBudget(get_db, q.uid, TOTAL_BUDGET_KEY, q.month)
        total_check ==
            IF budget_total # <<>>
            THEN <<TotalBudgetCheck(get_db, q.uid, q.month, budget_total[1])>>
            ELSE <<>>
        flashes ==
            (IF q.cat_check = <<>> THEN <<>> ELSE q.cat_check[1].flashes)
            \o (IF total_check = <<>> THEN <<>> ELSE total_check[1].flashes)
    IN /\ q.pc = "cat_checked"
       /\ inflight' = [inflight EXCEPT ![r] =
              [pc |-> "done", uid |-> q.uid, category |-> q.category,
               amount |-> q.amount, when |-> q.when, month |-> q.month,
               id |-> q.id, cat_check |-> q.cat_check,
               total_check |-> total_check, flashes |-> flashes]]
       /\ resp' = [handler |-> "add_expense", uid |-> q.uid, status |-> 302,
                   category |-> q.category, amount |-> q.amount,
                   when |-> q.when, month |-> q.month,
                   cat_check |-> q.cat_check, total_check |-> total_check,
                   flashes |-> flashes,
                   notify_large |-> (q.amount >= LARGE_EXPENSE_THRESHOLD)]
       /\ UNCHANGED <<expenses, incomes, budgets, sqlite_sequence, today>>

(***************************************************************************)
(* SpecConcurrent: budgets saved first, then interleaved add-expense       *)
(* requests of one user for one category and month                         *)
(***************************************************************************)
ConcSaveBudget ==
    /\ \A r \in Requests : inflight[r].pc = "idle"
    /\ sqlite_sequence.budgets < MaxBudgetSaves
    /\ \E cat_raw \in {Food, <<"a","l","l">>} :
           budgets_POST(1, cat_raw, June, 40000)

ConcInsert ==
    \E r \in Requests, amount \in {10000, 30000} :
        add_expense_insert(r, 1, Field(Food), Field(amount), Field(June30))

ConcCategoryCheck == \E r \in Requests : add_expense_category_check(r)

ConcTotalCheck == \E r \in Requests : add_expense_total_check(r)

NextConcurrent ==
    \/ ConcSaveBudget
    \/ ConcInsert
    \/ ConcCategoryCheck
    \/ ConcTotalCheck

SpecConcurrent == Init /\ [][NextConcurrent]_vars

\* The levels of the messages of a budget check of a request
CheckLevels(check) ==
    IF check = <<>> THEN {}
    ELSE {check[1].flashes[i].level : i \in DOMAIN check[1].flashes}

\* C15: in every interleaving, the check a request makes reads the sum of
\* the expenses committed so far for the category and month (for the month,
\* for the total budget), its own expense included; and once no request is
\* under way, some request has read the final sum, so that, if the final sum
\* exceeds the budget, some request has surfaced the exceeded message.
C15_Interleaved ==
    [][ LET fin == SumAmount(ExpensesOfMonth(1, June))
            done == {r \in Requests : inflight'[r].pc = "done"}
            quiet == \A r \in Requests : inflight'[r].pc \in {"idle", "done"}
        IN /\ \A r \in Requests :
                  (inflight[r].pc = "inserted" /\ inflight'[r].pc = "cat_checked"
                   /\ inflight'[r].cat_check # <<>>) =>
                      /\ \E i \in DOMAIN expenses : expenses[i].id = inflight[r].id
                      /\ inflight'[r].cat_check[1].spent = fin
           /\ \A r \in Requests :
                  (inflight[r].pc = "cat_checked" /\ inflight'[r].pc = "done"
                   /\ inflight'[r].total_check # <<>>) =>
                      /\ \E i \in DOMAIN expenses : expenses[i].id = inflight[r].id
                      /\ inflight'[r].total_check[1].spent = fin
           /\ (quiet /\ done # {}) =>
                  /\ \A i \in DOMAIN budgets :
                         (budgets[i].category = Food) =>
                             /\ \E r \in done :
                                    /\ inflight'[r].cat_check # <<>>
                                    /\ inflight'[r].cat_check[1].spent = fin
                             /\ fin > budgets[i].amount =>
                                    \E r \in done :
                                        "danger" \in CheckLevels(inflight'[r].cat_check)
                  /\ \A i \in DOMAIN budgets :
                         (budgets[i].category = TOTAL_BUDGET_KEY) =>
                             /\ \E r \in done :
                                    /\ inflight'[r].total_check # <<>>
                                    /\ inflight'[r].total_check[1].spent = fin
                             /\ fin > budgets[i].amount =>
                                    \E r \in done :
                                        "danger" \in CheckLevels(inflight'[r].total_check)
      ]_vars

\* Two requests that both inserted before either checked: each is within
\* the category budget alone, both read the sum of the two and both
\* surfaced the exceeded message
C15_BothSawBoth ==
    /\ \A r \in {1, 2} : inflight[r].pc = "done"
    /\ \A r \in {1, 2} :
           /\ inflight[r].amount <= 40000
           /\ inflight[r].cat_check # <<>>
           /\ inflight[r].cat_check[1].spent = inflight[1].amount + inflight[2].amount
           /\ inflight[r].cat_check[1].spent > inflight[r].cat_check[1].budget
           /\ "danger" \in CheckLevels(inflight[r].cat_check)

====
